---- MODULE Spec2Model ----
(***************************************************************************)
(* FROST threshold Schnorr signatures (frost-core) with the secp256k1      *)
(* taproot / Schnorr-adaptor ciphersuite (frost-schnorr-adaptor).          *)
(*                                                                         *)
(* The Group and Field traits are abstract in the source; the model       *)
(* instantiates them with a small concrete group: the direct product of   *)
(* a prime-order group Z_Q (generated by G) and a torsion part            *)
(* Z_Cofactor.  An element is <<a, u>>: a is the discrete logarithm of    *)
(* its prime-order component, u its torsion component.  Scalars are the   *)
(* integers modulo Q.                                                     *)
(***************************************************************************)
EXTENDS Integers, Sequences, FiniteSets, TLC

\* ---------------------------------------------------------------- bounds
\* Number of participants the dealer issues key packages to (max_signers).
MaxSigners == 3
\* Longest VSS commitment the key operations are applied to.
MaxCoeffs == 3

\* ----------------------------------------------------- Field (traits.rs)
\* Order of the scalar field GF(Q) and of the prime-order group.
Q == 5
Scalars == 0 .. (Q - 1)

\* Field::zero / Field::one
zero == 0
one == 1

SAdd(a, b) == (a + b) % Q
SSub(a, b) == (a + Q - b) % Q
SMul(a, b) == (a * b) % Q
\* Field::negate
negate(a) == (Q - a) % Q
\* Field::invert, for a non-zero scalar (Err(InvalidZeroScalar) otherwise).
invert(a) == CHOOSE b \in Scalars : (a * b) % Q = 1

\* ----------------------------------------------------- Group (traits.rs)
\* Group::cofactor: order of the torsion part.
Cofactor == 2
Elements == Scalars \X (0 .. (Cofactor - 1))
\* The elements of the prime-order group proper (no torsion component).
PrimeOrderElements == { P \in Elements : P[2] = 0 }

\* Group::identity, Group::generator, Group::cofactor (as a scalar)
identity == <<0, 0>>
generator == <<1, 0>>
cofactor == Cofactor % Q

\* Element: Add, Sub, Mul<Scalar>
EAdd(P, R) == <<(P[1] + R[1]) % Q, (P[2] + R[2]) % Cofactor>>
ENeg(P) == <<(Q - P[1]) % Q, (Cofactor - P[2]) % Cofactor>>
ESub(P, R) == EAdd(P, ENeg(R))
EMul(P, s) == <<(P[1] * s) % Q, (P[2] * s) % Cofactor>>

\* Group::y_is_odd: parity of the affine y coordinate.  P and -P share their
\* x coordinate and have opposite parities; the identity has no odd y.
y_is_odd(P) == P[1] > (Q - 1) \div 2
\* The x coordinate of a non-identity prime-order element.
x_only(P) == IF y_is_odd(P) THEN Q - P[1] ELSE P[1]
\* BIP340 lift_x: the element with the given x coordinate and even y.
lift_x(x) == <<x, 0>>
XCoords == 1 .. ((Q - 1) \div 2)

\* ------------------------------------------------------------ results
NoElement == <<>>
Ok(v) == [ok |-> TRUE, val |-> v, err |-> "none"]
Err(e) == [ok |-> FALSE, val |-> NoElement, err |-> e]

\* --------------------------------------------- Group (de)serialization
\* Compressed encoding <<tag, x>>: tag 2 (even y) or 3 (odd y), plus 2 when
\* the element carries a torsion component; the identity is the all-zero
\* encoding.
Encodings == (0 .. 5) \X Scalars
Group_serialize(P) ==
    IF P = identity THEN <<0, 0>>
    ELSE <<2 + (IF y_is_odd(P) THEN 1 ELSE 0) + 2 * P[2], x_only(P)>>

\* Group::deserialize: fails on a malformed encoding and on the identity.
Group_deserialize(buf) ==
    IF buf = <<0, 0>> THEN Err("GroupError::IdentityElement")
    ELSE IF buf[1] \notin {2, 3} \/ buf[2] \notin XCoords
         THEN Err("GroupError::InvalidElement")
    ELSE IF buf[1] = 2 THEN Ok(<<buf[2], 0>>)
    ELSE Ok(<<Q - buf[2], 0>>)

\* From<GroupError> for Error, used by `e.into()`.
Error_from_GroupError(e) ==
    IF e = "GroupError::IdentityElement" THEN "IncorrectCommitment"
    ELSE "MalformedVerifyingKey"

\* ------------------------------------------------ Ciphersuite hashes
\* A hash over a byte string: seeded by its domain-separation prefix and
\* folded over the bytes.
RECURSIVE HashFold(_, _)
HashFold(h, bytes) ==
    IF bytes = <<>> THEN h
    ELSE HashFold((3 * h + Head(bytes) + 1) % Q, Tail(bytes))

\* H1 ("rho"), H2 (challenge), H4 (message), H5 (commitments list).
H1(m) == HashFold(1, m)
H2(m) == HashFold(2, m)
H4(m) == HashFold(4, m)
H5(m) == HashFold(0, m)
\* The tagged hashes of the secp256k1 taproot variant.
H_taptweak(m) == HashFold(3, m)
H_bip340_challenge(m) == HashFold(2, <<7>> \o m)

\* ------------------------------------------------------- data types
Messages == { <<0>>, <<1>> }
\* SigningParameters of a ciphersuite without any (the unit type).
NoParameters == [tapscript_merkle_root |-> <<>>, adaptor_point |-> <<>>]

VerifyingKey_new(element) == [element |-> element]
to_element(vk) == vk.element

\* SigningParameters::adaptor_point(): the element the bytes encode; the
\* empty byte string stands for "no adaptor" and yields the identity.
adaptor_point(sig_params) ==
    IF sig_params.adaptor_point = <<>> THEN identity
    ELSE Group_deserialize(sig_params.adaptor_point).val

\* --------------------------------------- Ciphersuite hooks: defaults
effective_pubkey_element(verifying_key) == to_element(verifying_key)
effective_nonce_element(R) == R
effective_secret_key(secret, public) == secret
effective_nonce_secret(nonce, R) == nonce
\* A commitment share hook that normalises by the group commitment's parity.
effective_commitment_share_negated(group_commitment_share, group_commitment) ==
    IF y_is_odd(group_commitment) THEN ENeg(group_commitment_share)
    ELSE group_commitment_share
effective_commitment_share(group_commitment_share, group_commitment) ==
    group_commitment_share
effective_verifying_share(verifying_share, verifying_key) == verifying_share

\* ----------------------- Ciphersuite hooks: secp256k1 taproot adaptor
\* t = H_taptweak(x_only(PK) || m)
tweak(public_key, merkle_root) ==
    H_taptweak(<<x_only(public_key)>>
               \o (IF merkle_root = <<>> THEN <<>> ELSE <<9>> \o merkle_root[1]))

\* PK + t * G, PK negated first when its y is odd.
tweaked_public_key(public_key, merkle_root) ==
    LET P == IF y_is_odd(public_key) THEN ENeg(public_key) ELSE public_key
    IN  EAdd(P, EMul(generator, tweak(public_key, merkle_root)))

\* The tweaked key as the x-only key BIP340 verifies under: the point with
\* its x coordinate and even y.
Adaptor_effective_pubkey_element(verifying_key, sig_params) ==
    LET Pt == tweaked_public_key(to_element(verifying_key),
                                 sig_params.tapscript_merkle_root)
    IN  IF y_is_odd(Pt) THEN ENeg(Pt) ELSE Pt

\* The advertised nonce commitment R_adapted = R + T.
adapted_R(R, sig_params) == EAdd(R, adaptor_point(sig_params))

Adaptor_effective_nonce_element(R, sig_params) ==
    IF y_is_odd(adapted_R(R, sig_params)) THEN ENeg(R) ELSE R

Adaptor_effective_nonce_secret(nonce, R, sig_params) ==
    IF y_is_odd(adapted_R(R, sig_params)) THEN negate(nonce) ELSE nonce

\* The scalar tweak matching Adaptor_effective_pubkey_element.
Adaptor_effective_secret_key(secret, public, sig_params) ==
    LET pk == to_element(public)
        root == sig_params.tapscript_merkle_root
        s0 == IF y_is_odd(pk) THEN negate(secret) ELSE secret
        s1 == SAdd(s0, tweak(pk, root))
    IN  IF y_is_odd(tweaked_public_key(pk, root)) THEN negate(s1) ELSE s1

Adaptor_effective_commitment_share(share, R, sig_params) ==
    IF y_is_odd(adapted_R(R, sig_params)) THEN ENeg(share) ELSE share

Adaptor_effective_verifying_share(verifying_share, verifying_key, sig_params) ==
    LET pk == to_element(verifying_key)
        root == sig_params.tapscript_merkle_root
        Y0 == IF y_is_odd(pk) THEN ENeg(verifying_share) ELSE verifying_share
        Y1 == EAdd(Y0, EMul(generator, tweak(pk, root)))
    IN  IF y_is_odd(tweaked_public_key(pk, root)) THEN ENeg(Y1) ELSE Y1

\* ------------------------------------------ dispatch on ciphersuite C
Suites == { "default", "adaptor" }

C_effective_pubkey_element(C, verifying_key, sig_params) ==
    IF C = "adaptor"
    THEN Adaptor_effective_pubkey_element(verifying_key, sig_params)
    ELSE effective_pubkey_element(verifying_key)

C_effective_nonce_element(C, R, sig_params) ==
    IF C = "adaptor" THEN Adaptor_effective_nonce_element(R, sig_params)
    ELSE effective_nonce_element(R)

C_effective_secret_key(C, secret, public, sig_params) ==
    IF C = "adaptor" THEN Adaptor_effective_secret_key(secret, public, sig_params)
    ELSE effective_secret_key(secret, public)

C_effective_nonce_secret(C, nonce, R, sig_params) ==
    IF C = "adaptor" THEN Adaptor_effective_nonce_secret(nonce, R, sig_params)
    ELSE effective_nonce_secret(nonce, R)

C_effective_commitment_share(C, share, R, sig_params) ==
    IF C = "adaptor" THEN Adaptor_effective_commitment_share(share, R, sig_params)
    ELSE effective_commitment_share(share, R)

C_effective_verifying_share(C, verifying_share, verifying_key, sig_params) ==
    IF C = "adaptor"
    THEN Adaptor_effective_verifying_share(verifying_share, verifying_key, sig_params)
    ELSE effective_verifying_share(verifying_share, verifying_key)

\* ------------------------------------------------------- VerifyingKey
\* An effective key that ignores the signing parameters.
effective_key_unchanged(C, self, sig_params) == VerifyingKey_new(to_element(self))

effective_key(C, self, sig_params) ==
    VerifyingKey_new(C_effective_pubkey_element(C, self, sig_params))

VerifyingKey_y_is_odd(self) == y_is_odd(self.element)

\* A serialization that always writes the even-y tag.
VerifyingKey_serialize_even(self) == <<2, Group_serialize(self.element)[2]>>

VerifyingKey_serialize(self) == Group_serialize(self.element)

\* A deserialization that hands the group's error on unconverted.
VerifyingKey_deserialize_raw(bytes) ==
    LET r == Group_deserialize(bytes)
    IN  IF r.ok THEN Ok(VerifyingKey_new(r.val)) ELSE Err(r.err)

VerifyingKey_deserialize(bytes) ==
    LET r == Group_deserialize(bytes)
    IN  IF r.ok THEN Ok(VerifyingKey_new(r.val))
        ELSE Err(Error_from_GroupError(r.err))

\* A key taken from the last coefficient instead of the first.
from_commitment_last(commitment) ==
    IF Len(commitment) = 0 THEN Err("IncorrectCommitment")
    ELSE Ok(VerifyingKey_new(commitment[Len(commitment)]))

from_commitment(commitment) ==
    IF Len(commitment) = 0 THEN Err("IncorrectCommitment")
    ELSE Ok(VerifyingKey_new(commitment[1]))

\* The verification check with the nonce commitment added, not subtracted.
verify_prehashed_plus_R(C, self, challenge, signature, sig_params) ==
    LET R == signature.R
        vk == C_effective_pubkey_element(C, self, sig_params)
        zB == EMul(generator, signature.z)
        cA == EMul(vk, challenge)
        check == EMul(EAdd(ESub(zB, cA), R), cofactor)
    IN  IF check = identity THEN Ok(<<>>) ELSE Err("InvalidSignature")

\* The verification check without the cofactor multiplication.
verify_prehashed_cofactorless(C, self, challenge, signature, sig_params) ==
    LET R == signature.R
        vk == C_effective_pubkey_element(C, self, sig_params)
        zB == EMul(generator, signature.z)
        cA == EMul(vk, challenge)
        check == ESub(ESub(zB, cA), R)
    IN  IF check = identity THEN Ok(<<>>) ELSE Err("InvalidSignature")

verify_prehashed(C, self, challenge, signature, sig_params) ==
    LET R == signature.R
        vk == C_effective_pubkey_element(C, self, sig_params)
        zB == EMul(generator, signature.z)
        cA == EMul(vk, challenge)
        check == EMul(ESub(ESub(zB, cA), R), cofactor)
    IN  IF check = identity THEN Ok(<<>>) ELSE Err("InvalidSignature")

\* crate::challenge: c = H2(serialize(R_eff) || serialize(PK_eff) || msg)
challenge(R, verifying_key, msg) ==
    H2(Group_serialize(effective_nonce_element(R))
       \o Group_serialize(effective_pubkey_element(verifying_key))
       \o msg)

\* Ciphersuite::challenge (default)
Ciphersuite_challenge(R, verifying_key, msg) == challenge(R, verifying_key, msg)

\* BIP340 challenge of the adaptor variant: over the x coordinates of the
\* advertised R_adapted and of the tweaked key.
Adaptor_challenge(R, verifying_key, sig_target) ==
    H_bip340_challenge(
        <<x_only(adapted_R(R, sig_target.sig_params))>>
        \o <<x_only(Adaptor_effective_pubkey_element(verifying_key,
                                                     sig_target.sig_params))>>
        \o sig_target.message)

C_challenge(C, R, verifying_key, sig_target) ==
    IF C = "adaptor" THEN Adaptor_challenge(R, verifying_key, sig_target)
    ELSE Ciphersuite_challenge(R, verifying_key, sig_target.message)

\* Ciphersuite::verify_signature (default)
verify_signature(C, sig_target, signature, public_key) ==
    LET c == C_challenge(C, signature.R, public_key, sig_target)
    IN  verify_prehashed(C, public_key, c, signature, sig_target.sig_params)

\* verify_signature of the adaptor variant: the challenge is taken over
\* R_adapted, the nonce commitment is parity-normalised.
Adaptor_verify_signature(sig_target, signature, public_key) ==
    LET c == Adaptor_challenge(signature.R, public_key, sig_target)
        R == Adaptor_effective_nonce_element(signature.R, sig_target.sig_params)
    IN  verify_prehashed("adaptor", public_key, c,
                         [R |-> R, z |-> signature.z], sig_target.sig_params)

C_verify_signature(C, sig_target, signature, public_key) ==
    IF C = "adaptor" THEN Adaptor_verify_signature(sig_target, signature, public_key)
    ELSE verify_signature(C, sig_target, signature, public_key)

\* VerifyingKey::verify
verify(C, self, sig_target, signature) ==
    C_verify_signature(C, sig_target, signature, self)

\* ------------------------------------------------ finalization hooks
\* Ciphersuite::aggregate_sig_finalize (default; the adaptor variant keeps
\* the pre-signature's own nonce commitment R as well).
aggregate_sig_finalize(z, R, verifying_key, sig_target) ==
    [R |-> R, z |-> z]

\* A finalization that subtracts the challenge term.
single_sig_finalize_minus(k, R, secret, c, verifying_key) ==
    LET z == SSub(k, SMul(c, secret))
    IN  [R |-> R, z |-> z]

\* Ciphersuite::single_sig_finalize (default)
single_sig_finalize(k, R, secret, c, verifying_key) ==
    LET z == SAdd(k, SMul(c, secret))
    IN  [R |-> R, z |-> z]

\* ------------------------------------------------ trusted dealer keys
Identifiers == 1 .. MaxSigners
Thresholds == { 2, 3 }

\* Value at x of the polynomial with the given coefficients (constant first).
RECURSIVE evaluate_polynomial(_, _)
evaluate_polynomial(x, coefficients) ==
    IF coefficients = <<>> THEN 0
    ELSE (Head(coefficients) + x * evaluate_polynomial(x, Tail(coefficients))) % Q

signing_share(coefficients, i) == evaluate_polynomial(i, coefficients)
verifying_share(coefficients, i) == EMul(generator, signing_share(coefficients, i))
\* The VSS commitment: the coefficients' commitments a_k * G.
vss_commitment(coefficients) ==
    [k \in 1 .. Len(coefficients) |-> EMul(generator, coefficients[k])]
group_verifying_key(coefficients) == from_commitment(vss_commitment(coefficients)).val

KeyPackage(coefficients, i) ==
    [identifier |-> i,
     signing_share |-> signing_share(coefficients, i),
     verifying_share |-> verifying_share(coefficients, i),
     verifying_key |-> group_verifying_key(coefficients),
     min_signers |-> Len(coefficients)]

\* ------------------------------------------------------------ round 1
NoNonces == <<>>
NoCommitments == <<>>
\* The values a signer's hiding and binding nonces are drawn from.
HidingNonces == { 1, 3 }
BindingNonces == { 2 }

\* SigningNonces -> SigningCommitments: D = d * G, E = e * G
SigningCommitments_from(signing_nonces) ==
    [hiding |-> EMul(generator, signing_nonces.hiding),
     binding |-> EMul(generator, signing_nonces.binding)]

\* ------------------------------------------------------------ round 2
\* encode(commitments): identifier || D || E for every committed signer, in
\* identifier order.
RECURSIVE encode_group_commitments(_, _)
encode_group_commitments(cmts, i) ==
    IF i > MaxSigners THEN <<>>
    ELSE (IF cmts[i] = NoCommitments THEN <<>>
          ELSE <<i>> \o Group_serialize(cmts[i].hiding)
                     \o Group_serialize(cmts[i].binding))
         \o encode_group_commitments(cmts, i + 1)

\* rho_i = H1(H1(PK || H4(msg) || H5(encode(commitments))) || id_i)
compute_binding_factor(verifying_key, cmts, msg, i) ==
    LET transcript == H1(Group_serialize(to_element(verifying_key))
                         \o <<H4(msg)>>
                         \o <<H5(encode_group_commitments(cmts, 1))>>)
    IN  H1(<<transcript, i>>)

\* R = sum over the signers j of D_j + rho_j * E_j
RECURSIVE sum_group_commitment(_, _, _, _)
sum_group_commitment(verifying_key, cmts, msg, i) ==
    IF i > MaxSigners THEN identity
    ELSE EAdd(IF cmts[i] = NoCommitments THEN identity
              ELSE EAdd(cmts[i].hiding,
                        EMul(cmts[i].binding,
                             compute_binding_factor(verifying_key, cmts, msg, i))),
              sum_group_commitment(verifying_key, cmts, msg, i + 1))

compute_group_commitment(verifying_key, cmts, msg) ==
    sum_group_commitment(verifying_key, cmts, msg, 1)

\* lambda_i = product over j in S, j # i, of id_j / (id_j - id_i)
RECURSIVE lagrange_product(_, _, _)
lagrange_product(S, i, j) ==
    IF j > MaxSigners THEN <<1, 1>>
    ELSE LET rest == lagrange_product(S, i, j + 1)
         IN  IF j \in S /\ j # i
             THEN <<SMul(rest[1], j), SMul(rest[2], SSub(j, i))>>
             ELSE rest

derive_interpolating_value(S, i) ==
    LET nd == lagrange_product(S, i, 1)
    IN  SMul(nd[1], invert(nd[2]))

\* round2::compute_signature_share: z_i = k_i + c * lambda_i * s_i'
round2_compute_signature_share(C, signer_nonces, binding_factor, group_commitment, lambda_i, key_package, c, sig_params) ==
    LET k == C_effective_nonce_secret(
                 C,
                 SAdd(signer_nonces.hiding,
                      SMul(binding_factor, signer_nonces.binding)),
                 group_commitment, sig_params)
        s == C_effective_secret_key(C, key_package.signing_share,
                                    key_package.verifying_key, sig_params)
    IN  SAdd(k, SMul(SMul(c, lambda_i), s))

\* A share computation that leaves the binding nonce out.
compute_signature_share_unbound(C, signer_nonces, binding_factor, group_commitment, lambda_i, key_package, c, sig_params) ==
    round2_compute_signature_share(C, signer_nonces, zero, group_commitment,
                                   lambda_i, key_package, c, sig_params)

\* Ciphersuite::compute_signature_share (default): the nonces are borrowed.
compute_signature_share(C, signer_nonces, binding_factor, group_commitment, lambda_i, key_package, c, sig_params) ==
    round2_compute_signature_share(C, signer_nonces, binding_factor, group_commitment,
                                   lambda_i, key_package, c, sig_params)

\* round2::sign for signer i over the signing package (cmts, sig_target).
round2_sign(C, cmts, sig_target, signer_nonces, key_package) ==
    LET S == { j \in Identifiers : cmts[j] # NoCommitments }
        i == key_package.identifier
        vk == key_package.verifying_key
        rho == compute_binding_factor(vk, cmts, sig_target.message, i)
        R == compute_group_commitment(vk, cmts, sig_target.message)
        lambda_i == derive_interpolating_value(S, i)
        c == C_challenge(C, R, vk, sig_target)
    IN  compute_signature_share(C, signer_nonces, rho, R, lambda_i, key_package,
                                c, sig_target.sig_params)

\* -------------------------------------------------------- aggregation
NoShare == <<>>

\* z_i * G == (D_i + rho_i * E_i)_eff + (c * lambda_i) * Y_i_eff
verify_share(C, cmts, sig_target, vk, Y_i, i, z_i) ==
    LET S == { j \in Identifiers : cmts[j] # NoCommitments }
        rho == compute_binding_factor(vk, cmts, sig_target.message, i)
        R == compute_group_commitment(vk, cmts, sig_target.message)
        c == C_challenge(C, R, vk, sig_target)
        lambda_i == derive_interpolating_value(S, i)
        R_share == C_effective_commitment_share(
                       C, EAdd(cmts[i].hiding, EMul(cmts[i].binding, rho)),
                       R, sig_target.sig_params)
        Y_eff == C_effective_verifying_share(C, Y_i, vk, sig_target.sig_params)
    IN  EMul(generator, z_i) = EAdd(R_share, EMul(Y_eff, SMul(c, lambda_i)))

RECURSIVE sum_shares(_, _)
sum_shares(signature_shares, i) ==
    IF i > MaxSigners THEN 0
    ELSE SAdd(IF signature_shares[i] = NoShare THEN 0 ELSE signature_shares[i][1],
              sum_shares(signature_shares, i + 1))

\* frost::aggregate(signing_package, signature_shares, pubkeys)
aggregate(C, cmts, sig_target, signature_shares, coefficients) ==
    LET S == { j \in Identifiers : cmts[j] # NoCommitments }
        vk == group_verifying_key(coefficients)
        R == compute_group_commitment(vk, cmts, sig_target.message)
        bad == { i \in S : ~verify_share(C, cmts, sig_target, vk,
                                         verifying_share(coefficients, i), i,
                                         signature_shares[i][1]) }
        z == sum_shares(signature_shares, 1)
        sig == aggregate_sig_finalize(z, R, vk, sig_target)
    IN  IF bad # {} THEN Err("InvalidSignatureShare")
        ELSE IF verify(C, vk, sig_target, sig).ok THEN Ok(sig)
        ELSE Err("InvalidSignature")

\* ------------------------------------------- adaptor completion
\* BIP340 verification of the 64-byte signature <<r, s>> under the x-only
\* public key pkx.
bip340_verify(sig64, msg, pkx) ==
    IF pkx \notin XCoords \/ sig64[1] \notin XCoords THEN Err("InvalidSignature")
    ELSE LET P == lift_x(pkx)
             e == H_bip340_challenge(<<sig64[1]>> \o <<pkx>> \o msg)
             Rv == ESub(EMul(generator, sig64[2]), EMul(P, e))
         IN  IF Rv # identity /\ ~y_is_odd(Rv) /\ x_only(Rv) = sig64[1]
             THEN Ok(<<>>) ELSE Err("InvalidSignature")

\* A completion with the two cases exchanged.
adapt_swapped(pre_sig, T, t) ==
    LET Rp == EAdd(pre_sig.R, T)
        sp == IF y_is_odd(Rp) THEN SAdd(pre_sig.z, t) ELSE SSub(pre_sig.z, t)
    IN  <<Group_serialize(Rp)[2], sp>>

\* A completion that encodes the pre-signature's own nonce commitment.
adapt_unshifted(pre_sig, T, t) ==
    LET Rp == EAdd(pre_sig.R, T)
        sp == IF y_is_odd(Rp) THEN SSub(pre_sig.z, t) ELSE SAdd(pre_sig.z, t)
    IN  <<Group_serialize(pre_sig.R)[2], sp>>

\* Completion of a pre-signature with the witness t of T: R' = R + T,
\* z' = z - t when y(R') is odd, z + t otherwise; x_only(R') || z'.
adapt(pre_sig, T, t) ==
    LET Rp == EAdd(pre_sig.R, T)
        sp == IF y_is_odd(Rp) THEN SSub(pre_sig.z, t) ELSE SAdd(pre_sig.z, t)
    IN  <<Group_serialize(Rp)[2], sp>>

\* Recover the witness from a pre-signature and its completion.
extract(pre_sig, adapted_sig, T) ==
    LET Rp == EAdd(pre_sig.R, T)
        t == IF y_is_odd(Rp) THEN SSub(pre_sig.z, adapted_sig[2])
             ELSE SSub(adapted_sig[2], pre_sig.z)
    IN  IF EMul(generator, t) = T THEN Ok(<<t>>)
        ELSE Err("InvalidProofOfKnowledge")

\* ================================================================ state
VARIABLES
    suite,        \* the ciphersuite C of the session
    coeffs,       \* the dealer's secret polynomial (constant coefficient first)
    target,       \* SigningTarget: message and SigningParameters
    witness,      \* the adaptor secret t with T = t * G (0: no adaptor)
    signers,      \* the participants the coordinator chose
    nonces,       \* signer -> SigningNonces the signer holds
    commitments,  \* signer -> SigningCommitments the coordinator received
    shares,       \* signer -> SignatureShare the coordinator received
    signature,    \* result of aggregate
    verified,     \* result of VerifyingKey::verify on the signature
    adapted,      \* the completed 64-byte signature and the witness used
    bip340,       \* result of BIP340 verification of the completion
    extracted,    \* result of extract
    kop, kin, kout,   \* key operation applied, its input and its result
    vin, vout         \* verification input and its result

session_vars == <<suite, coeffs, target, witness, signers, nonces, commitments,
                  shares, signature, verified, adapted, bip340, extracted>>
key_vars == <<kop, kin, kout>>
verify_vars == <<vin, vout>>
vars == <<session_vars, key_vars, verify_vars>>

None == <<>>

\* ------------------------------------------------------------- Init
AdaptorWitnesses == { 0, 1, 3 }
\* Option<Vec<u8>>: <<>> is None, <<m>> is Some(m).
AdaptorMerkleRoots == { <<>>, << <<1>> >> }

SigningParameterSets(C, w) ==
    IF C = "adaptor"
    THEN { [tapscript_merkle_root |-> m,
            adaptor_point |-> IF w = 0 THEN <<>>
                              ELSE Group_serialize(EMul(generator, w))]
           : m \in AdaptorMerkleRoots }
    ELSE { NoParameters }

HigherCoefficients == { 1, 2 }
\* The secret polynomials the dealer draws: a non-zero secret, then
\* min_signers - 1 further coefficients.
Polynomials ==
    UNION { { p \in [1 .. t -> Scalars] :
                p[1] # 0 /\ \A k \in 2 .. t : p[k] \in HigherCoefficients }
            : t \in { u \in Thresholds : u <= MaxSigners } }

SessionIdle ==
    /\ suite = "default"
    /\ coeffs = <<1, 1>>
    /\ target = [message |-> <<0>>, sig_params |-> NoParameters]
    /\ witness = 0
    /\ signers = {}
    /\ nonces = [i \in Identifiers |-> NoNonces]
    /\ commitments = [i \in Identifiers |-> NoCommitments]
    /\ shares = [i \in Identifiers |-> NoShare]
    /\ signature = None
    /\ verified = None
    /\ adapted = None
    /\ bip340 = None
    /\ extracted = None

KeysIdle == kop = "none" /\ kin = <<>> /\ kout = None
VerifyIdle == vin = None /\ vout = None

\* A session after key generation by the trusted dealer: the coordinator
\* has fixed the signing target and the participants.
Init ==
    /\ suite \in Suites
    /\ coeffs \in Polynomials
    /\ witness \in (IF suite = "adaptor" THEN AdaptorWitnesses ELSE {0})
    /\ \E m \in Messages : \E sp \in SigningParameterSets(suite, witness) :
           target = [message |-> m, sig_params |-> sp]
    /\ signers \in { S \in SUBSET Identifiers : Cardinality(S) = Len(coeffs) }
    /\ nonces = [i \in Identifiers |-> NoNonces]
    /\ commitments = [i \in Identifiers |-> NoCommitments]
    /\ shares = [i \in Identifiers |-> NoShare]
    /\ signature = None
    /\ verified = None
    /\ adapted = None
    /\ bip340 = None
    /\ extracted = None
    /\ KeysIdle
    /\ VerifyIdle

\* ---------------------------------------------------------- actions
PK == group_verifying_key(coeffs)
T_adaptor == adaptor_point(target.sig_params)
AllCommitted == \A j \in signers : commitments[j] # NoCommitments
AllSigned == \A j \in signers : shares[j] # NoShare

\* round1::commit by signer i: fresh nonces, commitments to the coordinator.
Commit(i) ==
    /\ i \in signers
    /\ nonces[i] = NoNonces
    /\ commitments[i] = NoCommitments
    /\ \E d \in HidingNonces, e \in BindingNonces :
         LET n == [hiding |-> d, binding |-> e]
         IN  /\ nonces' = [nonces EXCEPT ![i] = n]
             /\ commitments' = [commitments EXCEPT ![i] = SigningCommitments_from(n)]
    /\ UNCHANGED <<suite, coeffs, target, witness, signers, shares,
                   signature, verified, adapted, bip340, extracted>>
    /\ UNCHANGED <<key_vars, verify_vars>>

\* Signer i computes its signature share over the signing package.  The
\* share computation borrows the nonces: the signer still holds them after.
Sign(i) ==
    /\ i \in signers
    /\ AllCommitted
    /\ nonces[i] # NoNonces
    /\ shares' = [shares EXCEPT ![i] =
                    <<round2_sign(suite, commitments, target, nonces[i],
                                  KeyPackage(coeffs, i))>>]
    /\ UNCHANGED <<suite, coeffs, target, witness, signers, nonces, commitments,
                   signature, verified, adapted, bip340, extracted>>
    /\ UNCHANGED <<key_vars, verify_vars>>

\* The coordinator aggregates the shares of all the participants.
Aggregate ==
    /\ AllCommitted
    /\ AllSigned
    /\ signature = None
    /\ signature' = aggregate(suite, commitments, target, shares, coeffs)
    /\ UNCHANGED <<suite, coeffs, target, witness, signers, nonces, commitments,
                   shares, verified, adapted, bip340, extracted>>
    /\ UNCHANGED <<key_vars, verify_vars>>

\* VerifyingKey::verify of the aggregated signature under the group key.
Verify ==
    /\ signature # None
    /\ signature.ok
    /\ verified = None
    /\ verified' = verify(suite, PK, target, signature.val)
    /\ UNCHANGED <<suite, coeffs, target, witness, signers, nonces, commitments,
                   shares, signature, adapted, bip340, extracted>>
    /\ UNCHANGED <<key_vars, verify_vars>>

\* Completion of the pre-signature with a candidate witness, and BIP340
\* verification of the result under the x-only tweaked key.
Adapt(t) ==
    /\ suite = "adaptor"
    /\ witness # 0
    /\ signature # None
    /\ signature.ok
    /\ verified # None
    /\ verified.ok
    /\ adapted = None
    /\ LET sig64 == adapt(signature.val, T_adaptor, t)
           tweaked_pk == VerifyingKey_serialize(
                             effective_key(suite, PK, target.sig_params))
       IN  /\ adapted' = [sig |-> sig64, witness |-> t]
           /\ bip340' = bip340_verify(sig64, target.message, tweaked_pk[2])
    /\ UNCHANGED <<suite, coeffs, target, witness, signers, nonces, commitments,
                   shares, signature, verified, extracted>>
    /\ UNCHANGED <<key_vars, verify_vars>>

\* Extraction of the witness from the pre-signature and its completion.
Extract ==
    /\ adapted # None
    /\ extracted = None
    /\ extracted' = extract(signature.val, adapted.sig, T_adaptor)
    /\ UNCHANGED <<suite, coeffs, target, witness, signers, nonces, commitments,
                   shares, signature, verified, adapted, bip340>>
    /\ UNCHANGED <<key_vars, verify_vars>>

Next ==
    \/ \E i \in Identifiers : Commit(i)
    \/ \E i \in Identifiers : Sign(i)
    \/ Aggregate
    \/ Verify
    \/ \E t \in { witness, SAdd(witness, 1) } : Adapt(t)
    \/ Extract

Spec == Init /\ [][Next]_vars

\* ------------------------------------ key operations on their own
\* The VSS commitments the key operations are applied to: up to MaxCoeffs
\* coefficient commitments, each any element of the prime-order group.
RECURSIVE SeqsUpTo(_, _)
SeqsUpTo(S, n) ==
    IF n = 0 THEN { <<>> }
    ELSE LET shorter == SeqsUpTo(S, n - 1)
         IN  shorter \cup { Append(c, x) : c \in shorter, x \in S }

VssCommitments == SeqsUpTo(PrimeOrderElements, MaxCoeffs)
ValidVerifyingKeys ==
    { VerifyingKey_new(P) : P \in PrimeOrderElements \ { identity } }

InitKeys == SessionIdle /\ KeysIdle /\ VerifyIdle

\* VerifyingKey::deserialize(bytes)
Deserialize(bytes) ==
    /\ kop' = "deserialize"
    /\ kin' = bytes
    /\ kout' = VerifyingKey_deserialize(bytes)
    /\ UNCHANGED <<session_vars, verify_vars>>

\* VerifyingKey::from_commitment(commitment)
FromCommitment(commitment) ==
    /\ kop' = "from_commitment"
    /\ kin' = commitment
    /\ kout' = from_commitment(commitment)
    /\ UNCHANGED <<session_vars, verify_vars>>

\* VerifyingKey::deserialize(vk.serialize())
RoundTripKey(vk) ==
    /\ kop' = "round_trip_key"
    /\ kin' = vk
    /\ kout' = VerifyingKey_deserialize(VerifyingKey_serialize(vk))
    /\ UNCHANGED <<session_vars, verify_vars>>

\* Group::deserialize(Group::serialize(P))
RoundTripElement(P) ==
    /\ kop' = "round_trip_element"
    /\ kin' = P
    /\ kout' = Group_deserialize(Group_serialize(P))
    /\ UNCHANGED <<session_vars, verify_vars>>

NextKeys ==
    \/ \E bytes \in Encodings : Deserialize(bytes)
    \/ \E commitment \in VssCommitments : FromCommitment(commitment)
    \/ \E vk \in ValidVerifyingKeys : RoundTripKey(vk)
    \/ \E P \in PrimeOrderElements \ { identity } : RoundTripElement(P)

SpecKeys == InitKeys /\ [][NextKeys]_vars

\* -------------------------------------- verification on its own
\* Any verifying key, message and signature of a ciphersuite that overrides
\* no hook.
InitVerify ==
    /\ SessionIdle
    /\ KeysIdle
    /\ \E P \in Elements, m \in Messages, R \in Elements, z \in Scalars :
         vin = [key |-> VerifyingKey_new(P),
                target |-> [message |-> m, sig_params |-> NoParameters],
                signature |-> [R |-> R, z |-> z]]
    /\ vout = None

\* VerifyingKey::verify(sig_target, signature)
VerifyInput ==
    /\ vout = None
    /\ vout' = verify("default", vin.key, vin.target, vin.signature)
    /\ UNCHANGED <<vin, session_vars, key_vars>>

NextVerify == VerifyInput

SpecVerify == InitVerify /\ [][NextVerify]_vars

\* ------------------------------- single-signer signing on its own
\* A single signer with secret key sk and verifying key sk * G draws the
\* nonce k, commits to R = k * G and finalizes under the challenge c.
SingleFinalize(k, secret, c) ==
    /\ kop = "none"
    /\ LET R == EMul(generator, k)
           key == VerifyingKey_new(EMul(generator, secret))
       IN  /\ kin' = [k |-> k, secret |-> secret, c |-> c, R |-> R, key |-> key]
           /\ kout' = single_sig_finalize(k, R, secret, c, key)
    /\ kop' = "single_sig_finalize"
    /\ UNCHANGED <<session_vars, verify_vars>>

\* VerifyingKey::verify_prehashed of the finalized signature, with the
\* challenge it was finalized under.
SingleVerify ==
    /\ kop = "single_sig_finalize"
    /\ kop' = "verify_prehashed"
    /\ kout' = [signature |-> kout,
                result |-> verify_prehashed("default", kin.key, kin.c, kout,
                                            NoParameters)]
    /\ UNCHANGED <<kin, session_vars, verify_vars>>

NextSingle ==
    \/ \E k \in Scalars, secret \in Scalars \ { zero }, c \in Scalars :
           SingleFinalize(k, secret, c)
    \/ SingleVerify

SpecSingle == InitKeys /\ [][NextSingle]_vars

\* ----------------------------- the default hooks on their own
\* Every SigningParameters value of the model.
AllSigningParameters ==
    { NoParameters } \cup UNION { SigningParameterSets("adaptor", w)
                                   : w \in AdaptorWitnesses }
AllVerifyingKeys == { VerifyingKey_new(P) : P \in Elements }

\* One application of a hook of a ciphersuite that overrides none: the
\* hook's name, its arguments and its result.
HookPubkeyElement(vk) ==
    /\ kop = "none"
    /\ kop' = "effective_pubkey_element"
    /\ kin' = <<vk>>
    /\ kout' = effective_pubkey_element(vk)
    /\ UNCHANGED <<session_vars, verify_vars>>

HookNonceElement(R) ==
    /\ kop = "none"
    /\ kop' = "effective_nonce_element"
    /\ kin' = <<R>>
    /\ kout' = effective_nonce_element(R)
    /\ UNCHANGED <<session_vars, verify_vars>>

HookSecretKey(secret, public) ==
    /\ kop = "none"
    /\ kop' = "effective_secret_key"
    /\ kin' = <<secret, public>>
    /\ kout' = <<effective_secret_key(secret, public)>>
    /\ UNCHANGED <<session_vars, verify_vars>>

HookNonceSecret(nonce, R) ==
    /\ kop = "none"
    /\ kop' = "effective_nonce_secret"
    /\ kin' = <<nonce, R>>
    /\ kout' = <<effective_nonce_secret(nonce, R)>>
    /\ UNCHANGED <<session_vars, verify_vars>>

HookCommitmentShare(share, R) ==
    /\ kop = "none"
    /\ kop' = "effective_commitment_share"
    /\ kin' = <<share, R>>
    /\ kout' = effective_commitment_share(share, R)
    /\ UNCHANGED <<session_vars, verify_vars>>

HookVerifyingShare(Y_i, vk) ==
    /\ kop = "none"
    /\ kop' = "effective_verifying_share"
    /\ kin' = <<Y_i, vk>>
    /\ kout' = effective_verifying_share(Y_i, vk)
    /\ UNCHANGED <<session_vars, verify_vars>>

HookAggregateFinalize(z, R, vk, sig_target) ==
    /\ kop = "none"
    /\ kop' = "aggregate_sig_finalize"
    /\ kin' = <<z, R, vk, sig_target>>
    /\ kout' = aggregate_sig_finalize(z, R, vk, sig_target)
    /\ UNCHANGED <<session_vars, verify_vars>>

HookEffectiveKey(vk, sig_params) ==
    /\ kop = "none"
    /\ kop' = "effective_key"
    /\ kin' = <<vk, sig_params>>
    /\ kout' = effective_key("default", vk, sig_params)
    /\ UNCHANGED <<session_vars, verify_vars>>

NextHooks ==
    \/ \E vk \in AllVerifyingKeys : HookPubkeyElement(vk)
    \/ \E R \in Elements : HookNonceElement(R)
    \/ \E secret \in Scalars, public \in AllVerifyingKeys :
           HookSecretKey(secret, public)
    \/ \E nonce \in Scalars, R \in Elements : HookNonceSecret(nonce, R)
    \/ \E share \in Elements, R \in Elements : HookCommitmentShare(share, R)
    \/ \E Y_i \in Elements, vk \in AllVerifyingKeys : HookVerifyingShare(Y_i, vk)
    \/ \E z \in Scalars, R \in Elements, vk \in ValidVerifyingKeys,
          m \in Messages :
           HookAggregateFinalize(z, R, vk,
                                 [message |-> m, sig_params |-> NoParameters])
    \/ \E vk \in AllVerifyingKeys, sig_params \in AllSigningParameters :
           HookEffectiveKey(vk, sig_params)

SpecHooks == InitKeys /\ [][NextHooks]_vars

\* ============================================================== claims

\* C1: VerifyingKey::verify computes c = challenge(R, PK, msg) and returns Ok
\* exactly when h * (z*G - c*PK_eff - R) is the identity, i.e. when the
\* prime-order components satisfy h*z = h*(r + c*pk) modulo the group order
\* (the cofactor clears every torsion component); in every other case it
\* returns Err(InvalidSignature).
C1_VerifyEquation ==
    vout # None =>
        LET pk == C_effective_pubkey_element("default", vin.key,
                                             vin.target.sig_params)
            R == vin.signature.R
            c == challenge(R, vin.key, vin.target.message)
            holds == (Cofactor * vin.signature.z) % Q
                       = (Cofactor * (R[1] + c * pk[1])) % Q
        IN  /\ vout.ok <=> holds
            /\ ~vout.ok => vout.err = "InvalidSignature"

\* C1 witness: verify accepts a signature whose R carries a torsion
\* component, which only the multiplication by the cofactor clears.
C1_Witness ==
    /\ vout # None
    /\ vout.ok
    /\ vin.signature.R[2] # 0
    /\ vin.signature.R[1] # 0

C7_FromCommitmentRejectsIdentity ==
    (kop = "from_commitment" /\ Len(kin) > 0 /\ Head(kin) = identity) => ~kout.ok

\* C8: from_commitment of a non-empty commitment is Ok with the first
\* coefficient as the key's element, whatever the other coefficients are;
\* of the empty commitment it is Err(IncorrectCommitment).
C8_FromCommitmentFirst ==
    kop = "from_commitment" =>
        IF kin = <<>>
        THEN ~kout.ok /\ kout.err = "IncorrectCommitment"
        ELSE kout.ok /\ kout.val.element = Head(kin)

C8_Witness ==
    /\ kop = "from_commitment"
    /\ Len(kin) >= 2
    /\ kin[1] # kin[2]
    /\ kout.ok

\* C9: serialization round-trips: deserializing the serialization of a
\* non-identity element, or of a valid verifying key, gives it back.
C9_RoundTrip ==
    /\ kop = "round_trip_element" => (kout.ok /\ kout.val = kin)
    /\ kop = "round_trip_key" => (kout.ok /\ kout.val = kin)

C9_Witness ==
    /\ kop = "round_trip_key"
    /\ y_is_odd(kin.element)
    /\ kout.ok

\* The session's pre-signature quantities.
R_adapted == adapted_R(signature.val.R, target.sig_params)
PK_tweaked == Adaptor_effective_pubkey_element(PK, target.sig_params)
Produced == signature # None /\ signature.ok
AdaptorSession == suite = "adaptor" /\ witness # 0

\* C2: for every threshold and every choice of exactly that many honest
\* signers, the aggregation of their shares succeeds and the resulting
\* signature passes VerifyingKey::verify under the group verifying key and
\* the signing target's parameters.
C2_ThresholdCorrectness ==
    /\ signature # None => signature.ok
    /\ verified # None => verified.ok

C2_Witness ==
    /\ verified # None
    /\ verified.ok
    /\ AdaptorSession
    /\ target.sig_params.tapscript_merkle_root # <<>>
    /\ Cardinality(signers) < MaxSigners
    /\ y_is_odd(R_adapted)

\* C3: once signer i has emitted a signature share from its SigningNonces,
\* it refuses to emit another one from them (producing the share consumed
\* the nonces).
C3_NoncesUsedOnce ==
    \A i \in Identifiers : shares[i] # NoShare => ~ENABLED Sign(i)

\* C4: the completion of a pre-signature with the witness of T, encoded as
\* x_only(R') followed by z', is a valid BIP340 signature of the message
\* under the x-only tweaked verifying key.  (x_only is defined for
\* non-identity elements only: R' and the tweaked key have an x coordinate.)
C4_AdaptedIsBip340Valid ==
    (/\ adapted # None
     /\ adapted.witness = witness
     /\ R_adapted # identity
     /\ PK_tweaked # identity) => bip340.ok

C4_Witness ==
    /\ adapted # None
    /\ adapted.witness = witness
    /\ y_is_odd(R_adapted)
    /\ target.sig_params.tapscript_merkle_root # <<>>
    /\ bip340.ok

\* C5: extract applied to a pre-signature and its completion with the
\* witness t of T returns t; applied to a completion whose scalar differs
\* from the pre-signature's by another value, it fails with
\* InvalidProofOfKnowledge.
C5_ExtractLaw ==
    extracted # None =>
        IF adapted.witness = witness
        THEN extracted = Ok(<<witness>>)
        ELSE ~extracted.ok /\ extracted.err = "InvalidProofOfKnowledge"

C5_Witness ==
    /\ extracted # None
    /\ extracted.ok
    /\ y_is_odd(R_adapted)

\* C10 as stated: the pre-signature (R, z) satisfies the verification
\* equation with R replaced by R_adapted = R + T, under PK_tweaked.
C10_EquationWithAdaptedR ==
    (AdaptorSession /\ Produced) =>
        LET sig == signature.val
            c == Adaptor_challenge(sig.R, PK, target)
        IN  EMul(ESub(ESub(EMul(generator, sig.z), EMul(PK_tweaked, c)),
                      R_adapted),
                 cofactor) = identity

\* C10 amended: every pre-signature of a session with a non-empty adaptor
\* point is accepted by verification; the verification equation holds with
\* the challenge computed from R_adapted = R + T, with R negated when
\* y(R_adapted) is odd, and with the PK_tweaked that verifies the adapted
\* signature.
C10_PreSignatureVerifies ==
    AdaptorSession =>
        /\ signature # None => signature.ok
        /\ verified # None => verified.ok
        /\ Produced =>
             LET sig == signature.val
                 c == Adaptor_challenge(sig.R, PK, target)
                 R_eff == IF y_is_odd(R_adapted) THEN ENeg(sig.R) ELSE sig.R
             IN  EMul(generator, sig.z) = EAdd(R_eff, EMul(PK_tweaked, c))

C10_Witness ==
    /\ AdaptorSession
    /\ Produced
    /\ verified # None
    /\ verified.ok
    /\ ~y_is_odd(R_adapted)
    /\ R_adapted # identity

\* C11 as stated: in every session of the adaptor variant the x-only
\* component of the final R is x(R_adapted), R_adapted = R + T, and the y
\* coordinate of R_adapted is even.
C11_AdaptedRAlwaysEven ==
    /\ (adapted # None /\ R_adapted # identity) =>
           adapted.sig[1] = x_only(R_adapted)
    /\ (AdaptorSession /\ Produced) => ~y_is_odd(R_adapted)

\* C11 amended: the x-only component of the final R is x(R_adapted); the
\* y coordinate of R_adapted itself may be odd, and the nonce point BIP340
\* verification recovers from the completed signature, z'*G - c*PK_tweaked,
\* is the point with that x coordinate and even y: R_adapted when its y is
\* even, -R_adapted when it is odd.
C11_FinalRParity ==
    (adapted # None /\ R_adapted # identity) =>
        /\ adapted.sig[1] = x_only(R_adapted)
        /\ adapted.witness = witness =>
             LET c == Adaptor_challenge(signature.val.R, PK, target)
                 Rv == ESub(EMul(generator, adapted.sig[2]), EMul(PK_tweaked, c))
             IN  /\ Rv = (IF y_is_odd(R_adapted) THEN ENeg(R_adapted)
                          ELSE R_adapted)
                 /\ ~y_is_odd(Rv)
                 /\ x_only(Rv) = adapted.sig[1]

C11_Witness ==
    /\ adapted # None
    /\ adapted.witness = witness
    /\ R_adapted # identity
    /\ y_is_odd(R_adapted)
    /\ signature.val.R # identity
    /\ x_only(signature.val.R) # x_only(R_adapted)

\* C12: the default single_sig_finalize returns Signature{R, z} with R
\* unchanged and z = k + c * secret, and the signature finalized from
\* R = k*G under the challenge c passes verify_prehashed with the same c
\* under the key PK = secret * G.
C12_SingleSignVerifies ==
    /\ kop = "single_sig_finalize" =>
           kout = [R |-> kin.R, z |-> (kin.k + kin.c * kin.secret) % Q]
    /\ kop = "verify_prehashed" =>
           /\ kout.signature.R = EMul(generator, kin.k)
           /\ kout.result = Ok(<<>>)

C12_Witness ==
    /\ kop = "verify_prehashed"
    /\ kin.c # 0
    /\ kin.k # 0
    /\ kout.signature.z = 0
    /\ kout.result.ok

\* C13: for a ciphersuite that overrides no hook, each effective_* hook
\* returns the value of its first argument, aggregate_sig_finalize returns
\* Signature{R, z} with both arguments unchanged, and
\* VerifyingKey::effective_key returns the same verifying key for every
\* signing parameters value.
C13_DefaultHooksIdentity ==
    /\ kop = "effective_pubkey_element" => kout = kin[1].element
    /\ kop \in { "effective_nonce_element", "effective_commitment_share",
                 "effective_verifying_share" } => kout = kin[1]
    /\ kop \in { "effective_secret_key", "effective_nonce_secret" } =>
           kout = <<kin[1]>>
    /\ kop = "aggregate_sig_finalize" => kout = [R |-> kin[2], z |-> kin[1]]
    /\ kop = "effective_key" => kout = kin[1]

C13_Witness ==
    /\ kop = "effective_commitment_share"
    /\ y_is_odd(kin[2])
    /\ kin[1] # ENeg(kin[1])
    /\ kout = kin[1]

====
